---- MODULE Spec2Model ----
(***************************************************************************)
(* SLO tracking of the API service (services/api/app/trace_metrics.py),    *)
(* the health endpoint that feeds it (services/api/app/main.py) and the    *)
(* SLO status reader of the CLI (scripts/slo_manager.py).                  *)
(*                                                                         *)
(* Ratios (compliance, target, error budget, budget remaining) are exact   *)
(* decimals in thousandths: One stands for 1.0.  Latencies are in          *)
(* milliseconds.  An optional value (a gauge series that was never set, a  *)
(* Python None) is the empty sequence, a present value v is <<v>>.         *)
(***************************************************************************)
EXTENDS Integers, Sequences, FiniteSets, Bags, TLC

\* 1.0 in thousandths.
One == 1000

None == <<>>

Some(v) == <<v>>

\* x in list
In(x, list) == \E i \in DOMAIN list : list[i] = x

\* trace_metrics.SLO_DEFINITIONS: target and error_budget in thousandths,
\* latency_target in milliseconds.
SLO_DEFINITIONS ==
    [ api_health |->
        [ target |-> 950, latency_target |-> 100, error_budget |-> 50,
          windows |-> <<"5m", "1h", "24h">>,
          endpoints |-> <<"health_check", "read_root", "/health">> ],
      external_data |->
        [ target |-> 900, latency_target |-> 300, error_budget |-> 100,
          windows |-> <<"5m", "1h", "24h">>,
          endpoints |-> <<"get_external_data">> ],
      data_access |->
        [ target |-> 950, latency_target |-> 200, error_budget |-> 50,
          windows |-> <<"5m", "1h", "24h">>,
          endpoints |-> <<"read_users", "read_items", "create_user", "create_item">> ] ]

\* The windows update_slo_compliance accepts.
VALID_WINDOWS == <<"immediate", "5m", "1h", "24h">>

(***************************************************************************)
(* Inputs.                                                                 *)
(***************************************************************************)
\* Endpoint labels the callers pass.
Endpoints == {"health_check", "read_users"}

\* SLO names the callers pass; "checkout" is in no catalog.
SloNames == {"api_health", "external_data", "data_access", "checkout"}

\* SLO names the callers of update_slo_compliance pass.
EvalSlos == {"api_health", "external_data", "checkout"}

\* Windows the callers pass; "7d" is not accepted.
Windows == {"immediate", "5m", "7d"}

\* Compliance ratios the callers pass, in thousandths (one below 0).
Ratios == {-50, 850, 900, 910, 925, 930, 950}

\* Latencies the callers pass, in milliseconds.
Latencies == {-5, 50, 150}

\* Calls of the recorder in one run.
MaxCalls == 2

\* Calls of update_slo_compliance in one run.
MaxUpdates == 2

\* Requests served by the health endpoint in one run.
MaxRequests == 3

\* Request-handling threads that record concurrently.
NumThreads == 2

VARIABLES
    SLO_LATENCY_BUCKET,  \* histogram: <<endpoint, slo>> -> bag of samples
    SLO_ERROR_COUNTER,   \* counter:   <<endpoint, slo>> -> count
    SLO_COMPLIANCE,      \* gauge:     <<endpoint, slo, window>> -> optional ratio
    SLO_ERROR_BUDGET,    \* gauge:     <<slo, window>> -> optional ratio
    ret,                 \* the last completed call: arguments, result, logs
    calls,               \* calls made so far
    pc,                  \* thread -> position in track_request_for_slo
    frame,               \* thread -> arguments of its call
    trace,               \* the trace handed to analyze_trace
    analysis,            \* what analyze_trace returned, once it has
    redis,               \* get_redis_client: the server's answers and the call's locals
    repo,                \* the cached repository: database rows, cache, calls in progress
    OPERATION_COUNTER,   \* counter:   <<service, operation>> -> count
    ERROR_COUNTER,       \* counter:   <<service, operation, error_type>> -> count
    SPAN_DURATION        \* histogram: <<service, operation, status>> -> bag of samples

\* The metrics track_operation_time writes.
tracked == <<OPERATION_COUNTER, ERROR_COUNTER, SPAN_DURATION>>

vars == <<SLO_LATENCY_BUCKET, SLO_ERROR_COUNTER, SLO_COMPLIANCE, SLO_ERROR_BUDGET,
          ret, calls, pc, frame, trace, analysis, redis, repo, tracked>>

\* The operations wrapped by track_operation_time (service "api").
Operations == {"health_check", "get_external_data"}

\* Classes of exceptions; SystemExit is a BaseException that is not an
\* Exception.
ErrorTypes == {"HTTPException", "NameError", "SystemExit"}

OperationKeys == {"api"} \X Operations

ErrorKeys == {"api"} \X Operations \X ErrorTypes

DurationKeys == {"api"} \X Operations \X {"success", "error"}

InitTracked ==
    /\ OPERATION_COUNTER = [k \in OperationKeys |-> 0]
    /\ ERROR_COUNTER = [k \in ErrorKeys |-> 0]
    /\ SPAN_DURATION = [k \in DurationKeys |-> EmptyBag]

metrics == <<SLO_LATENCY_BUCKET, SLO_ERROR_COUNTER, SLO_COMPLIANCE, SLO_ERROR_BUDGET>>

Threads == 1..NumThreads

SeriesKeys == Endpoints \X SloNames

\* Window labels a gauge series can carry.
WindowLabels == Windows \cup {"immediate", "5m", "1h", "24h"}

GaugeKeys == Endpoints \X SloNames \X WindowLabels

BudgetKeys == SloNames \X WindowLabels

NoCall == [op |-> "none"]

\* The state once the module is imported: every series empty.
InitMetrics ==
    /\ SLO_LATENCY_BUCKET = [k \in SeriesKeys |-> EmptyBag]
    /\ SLO_ERROR_COUNTER = [k \in SeriesKeys |-> 0]
    /\ SLO_COMPLIANCE = [k \in GaugeKeys |-> None]
    /\ SLO_ERROR_BUDGET = [k \in BudgetKeys |-> None]
    /\ InitTracked
    /\ ret = NoCall
    /\ calls = 0
    /\ pc = [t \in Threads |-> "idle"]
    /\ frame = [t \in Threads |-> NoCall]
    /\ trace = [spans |-> <<>>, processes |-> <<>>]
    /\ analysis = None
    /\ redis = NoCall
    /\ repo = NoCall

(***************************************************************************)
(* The metrics sink (prometheus_client): each operation is atomic.         *)
(***************************************************************************)
\* observe on a child that is created anew by every labels() call: the
\* series restarts from the one sample.
observe_replacing(hist, key, latency) ==
    [hist EXCEPT ![key] = SetToBag({latency})]

\* Histogram.labels(endpoint, slo).observe(latency)
observe(hist, key, latency) ==
    [hist EXCEPT ![key] = @ (+) SetToBag({latency})]

\* Counter.labels(endpoint, slo).inc()
inc(counter, key) ==
    [counter EXCEPT ![key] = @ + 1]

\* A gauge that adds the value to what the series holds (inc in place of set).
set_adding(gauge, key, value) ==
    [gauge EXCEPT ![key] = IF @ = None THEN Some(value) ELSE Some(@[1] + value)]

\* Gauge.labels(...).set(value)
set(gauge, key, value) ==
    [gauge EXCEPT ![key] = Some(value)]

\* Samples a histogram series holds.
SampleCount(hist, key) == BagCardinality(hist[key])

(***************************************************************************)
(* track_request_for_slo                                                   *)
(***************************************************************************)
\* slo_def = SLO_DEFINITIONS.get(slo_name); not slo_def
slo_missing(slo_name) == slo_name \notin DOMAIN SLO_DEFINITIONS

\* The guards without the endpoint check.
slo_tracks_any_endpoint(endpoint, slo_name) ==
    ~slo_missing(slo_name)

\* The guards of track_request_for_slo: the call goes on to record.
slo_tracks(endpoint, slo_name) ==
    /\ ~slo_missing(slo_name)
    /\ In(endpoint, SLO_DEFINITIONS[slo_name].endpoints)

\* The histogram after track_request_for_slo.
track_latency(hist, endpoint, slo_name, latency) ==
    IF slo_tracks(endpoint, slo_name)
    THEN observe(hist, <<endpoint, slo_name>>, latency)
    ELSE hist

\* The error counter incremented for every recorded request.
track_errors_always(counter, endpoint, slo_name, is_error) ==
    IF slo_tracks(endpoint, slo_name)
    THEN inc(counter, <<endpoint, slo_name>>)
    ELSE counter

\* The error counter after track_request_for_slo.
track_errors(counter, endpoint, slo_name, is_error) ==
    IF slo_tracks(endpoint, slo_name) /\ is_error
    THEN inc(counter, <<endpoint, slo_name>>)
    ELSE counter

\* What track_request_for_slo logs.
track_logs(endpoint, slo_name) ==
    IF slo_missing(slo_name) THEN <<"debug:slo_not_found">>
    ELSE IF ~In(endpoint, SLO_DEFINITIONS[slo_name].endpoints)
         THEN <<"debug:endpoint_not_in_slo">>
         ELSE <<"debug:recording", "debug:slo_performance">>

track_request_for_slo(endpoint, slo_name, latency, is_error) ==
    /\ calls < MaxCalls
    /\ calls' = calls + 1
    /\ SLO_LATENCY_BUCKET' = track_latency(SLO_LATENCY_BUCKET, endpoint, slo_name, latency)
    /\ SLO_ERROR_COUNTER' = track_errors(SLO_ERROR_COUNTER, endpoint, slo_name, is_error)
    /\ ret' = [op |-> "track_request_for_slo", endpoint |-> endpoint, slo |-> slo_name,
               latency |-> latency, is_error |-> is_error,
               raised |-> "none", logs |-> track_logs(endpoint, slo_name)]
    /\ UNCHANGED <<SLO_COMPLIANCE, SLO_ERROR_BUDGET, pc, frame, trace, analysis, redis, repo, tracked>>

Record ==
    \E endpoint \in Endpoints, slo_name \in SloNames, latency \in Latencies,
       is_error \in BOOLEAN :
        track_request_for_slo(endpoint, slo_name, latency, is_error)

\* The recorder called from one thread at a time.
SpecRecorder == InitMetrics /\ [][Record]_vars

\* The catalog, read as the claims read it: slo_name is a defined SLO and
\* endpoint is one of its endpoints.
Configured(endpoint, slo_name) ==
    /\ slo_name \in {"api_health", "external_data", "data_access"}
    /\ \E i \in 1..Len(SLO_DEFINITIONS[slo_name].endpoints) :
           SLO_DEFINITIONS[slo_name].endpoints[i] = endpoint

IsTrack(r) == r.op = "track_request_for_slo"

\* C7: a call naming an SLO outside the catalog, or an endpoint outside the
\* SLO's endpoint set, is a silent no-op: nothing is raised and every
\* latency histogram and every error counter is left as it was.
C7_UnconfiguredIsNoOp ==
    [][ (IsTrack(ret') /\ calls' = calls + 1 /\ ~Configured(ret'.endpoint, ret'.slo))
          => /\ ret'.raised = "none"
             /\ SLO_LATENCY_BUCKET' = SLO_LATENCY_BUCKET
             /\ SLO_ERROR_COUNTER' = SLO_ERROR_COUNTER ]_vars

\* An unconfigured call has returned while some series already holds data.
C7_Witness ==
    /\ IsTrack(ret)
    /\ ~Configured(ret.endpoint, ret.slo)
    /\ \E k \in SeriesKeys : SampleCount(SLO_LATENCY_BUCKET, k) > 0 /\ SLO_ERROR_COUNTER[k] > 0

\* C8: a configured call adds exactly one latency sample (the latency given)
\* to the histogram keyed (endpoint, slo_name), adds one to the error counter
\* of that key if is_error and nothing otherwise, and changes no other series.
C8_ConfiguredRecordsOnce ==
    [][ (IsTrack(ret') /\ calls' = calls + 1 /\ Configured(ret'.endpoint, ret'.slo))
          => LET key == <<ret'.endpoint, ret'.slo>> IN
             /\ SampleCount(SLO_LATENCY_BUCKET', key) = SampleCount(SLO_LATENCY_BUCKET, key) + 1
             /\ CopiesIn(ret'.latency, SLO_LATENCY_BUCKET'[key])
                    = CopiesIn(ret'.latency, SLO_LATENCY_BUCKET[key]) + 1
             /\ SLO_ERROR_COUNTER'[key]
                    = SLO_ERROR_COUNTER[key] + (IF ret'.is_error THEN 1 ELSE 0)
             /\ \A k \in SeriesKeys \ {key} :
                    /\ SLO_LATENCY_BUCKET'[k] = SLO_LATENCY_BUCKET[k]
                    /\ SLO_ERROR_COUNTER'[k] = SLO_ERROR_COUNTER[k] ]_vars

\* A configured call without error has returned after an earlier call with
\* error on the same key.
C8_Witness ==
    /\ IsTrack(ret)
    /\ Configured(ret.endpoint, ret.slo)
    /\ ~ret.is_error
    /\ SampleCount(SLO_LATENCY_BUCKET, <<ret.endpoint, ret.slo>>) = 2
    /\ SLO_ERROR_COUNTER[<<ret.endpoint, ret.slo>>] = 1

\* C9: a call with a negative latency fails with InvalidObservationError and
\* records nothing.
C9_NegativeLatencyRejected ==
    [][ (IsTrack(ret') /\ calls' = calls + 1 /\ ret'.latency < 0)
          => /\ ret'.raised = "InvalidObservationError"
             /\ SLO_LATENCY_BUCKET' = SLO_LATENCY_BUCKET
             /\ SLO_ERROR_COUNTER' = SLO_ERROR_COUNTER ]_vars

(***************************************************************************)
(* track_request_for_slo called from several threads: the steps of one     *)
(* call are its guards, the histogram's observe and the counter's inc.     *)
(***************************************************************************)
\* What the concurrent callers pass.
ThreadSlos == {"api_health", "data_access"}

ThreadLatencies == {50, 150}

\* A thread enters track_request_for_slo.
t_call(t) ==
    /\ pc[t] = "idle"
    /\ \E endpoint \in Endpoints, slo_name \in ThreadSlos, latency \in ThreadLatencies,
          is_error \in BOOLEAN :
           frame' = [frame EXCEPT ![t] =
                        [op |-> "track_request_for_slo", endpoint |-> endpoint,
                         slo |-> slo_name, latency |-> latency, is_error |-> is_error]]
    /\ pc' = [pc EXCEPT ![t] = "guards"]
    /\ UNCHANGED <<metrics, ret, calls, trace, analysis, redis, repo, tracked>>

\* The catalog lookup and the endpoint check.
t_guards(t) ==
    /\ pc[t] = "guards"
    /\ pc' = [pc EXCEPT ![t] =
                 IF slo_tracks(frame[t].endpoint, frame[t].slo) THEN "observe" ELSE "done"]
    /\ UNCHANGED <<metrics, ret, calls, frame, trace, analysis, redis, repo, tracked>>

\* SLO_LATENCY_BUCKET.labels(...).observe(latency)
t_observe(t) ==
    /\ pc[t] = "observe"
    /\ SLO_LATENCY_BUCKET' =
           observe(SLO_LATENCY_BUCKET, <<frame[t].endpoint, frame[t].slo>>, frame[t].latency)
    /\ pc' = [pc EXCEPT ![t] = IF frame[t].is_error THEN "inc" ELSE "done"]
    /\ UNCHANGED <<SLO_ERROR_COUNTER, SLO_COMPLIANCE, SLO_ERROR_BUDGET, ret, calls, frame, trace, analysis, redis, repo, tracked>>

\* SLO_ERROR_COUNTER.labels(...).inc()
t_inc(t) ==
    /\ pc[t] = "inc"
    /\ SLO_ERROR_COUNTER' = inc(SLO_ERROR_COUNTER, <<frame[t].endpoint, frame[t].slo>>)
    /\ pc' = [pc EXCEPT ![t] = "done"]
    /\ UNCHANGED <<SLO_LATENCY_BUCKET, SLO_COMPLIANCE, SLO_ERROR_BUDGET, ret, calls, frame, trace, analysis, redis, repo, tracked>>

Interleave ==
    \E t \in Threads : t_call(t) \/ t_guards(t) \/ t_observe(t) \/ t_inc(t)

\* The recorder called from NumThreads threads at once.
SpecConcurrent == InitMetrics /\ [][Interleave]_vars

\* The threads whose call is configured for the key.
CallsFor(key) ==
    {t \in Threads : /\ pc[t] # "idle"
                     /\ <<frame[t].endpoint, frame[t].slo>> = key
                     /\ Configured(frame[t].endpoint, frame[t].slo)}

AllDone == \A t \in Threads : pc[t] = "done"

NoUpdateLost ==
    AllDone =>
        \A key \in SeriesKeys :
            /\ SampleCount(SLO_LATENCY_BUCKET, key) = Cardinality(CallsFor(key))
            /\ SLO_ERROR_COUNTER[key]
                   = Cardinality({t \in CallsFor(key) : frame[t].is_error})

NeverDecreases ==
    \A key \in SeriesKeys :
        /\ SampleCount(SLO_LATENCY_BUCKET', key) >= SampleCount(SLO_LATENCY_BUCKET, key)
        /\ SLO_ERROR_COUNTER'[key] >= SLO_ERROR_COUNTER[key]

\* C10: under every interleaving of concurrent calls, once all calls have
\* completed each histogram's sample count is the number of configured calls
\* for its key and each error counter the number of those with is_error, and
\* no count ever decreases.
C10_NoLostUpdate == [](NoUpdateLost) /\ [][NeverDecreases]_vars

\* All threads have completed, two of them on one key, one with an error.
C10_Witness ==
    /\ AllDone
    /\ \E key \in SeriesKeys :
           /\ Cardinality(CallsFor(key)) >= 2
           /\ SLO_ERROR_COUNTER[key] = 1

(***************************************************************************)
(* update_slo_compliance                                                   *)
(***************************************************************************)
Max(a, b) == IF a >= b THEN a ELSE b

Min(a, b) == IF a <= b THEN a ELSE b

\* The call passes both validations and goes on to set the compliance gauge.
update_accepted(slo_name, window) ==
    /\ In(window, VALID_WINDOWS)
    /\ slo_name \in DOMAIN SLO_DEFINITIONS

\* The budget derived from the target alone: the shortfall is divided by the
\* target instead of the error budget.
budget_remaining_by_target(slo_name, compliance_ratio) ==
    LET target == SLO_DEFINITIONS[slo_name].target
        budget_used_ratio == ((target - compliance_ratio) * One) \div target
    IN  IF compliance_ratio < target
        THEN Max(0, One - budget_used_ratio)
        ELSE One

\* The budget without the clamp at 0.
budget_remaining_unclamped(slo_name, compliance_ratio) ==
    LET target == SLO_DEFINITIONS[slo_name].target
        error_budget == SLO_DEFINITIONS[slo_name].error_budget
        budget_used_ratio == ((target - compliance_ratio) * One) \div error_budget
    IN  IF compliance_ratio < target
        THEN One - budget_used_ratio
        ELSE One

\* The remaining error budget derived from a compliance ratio.  The division
\* is exact: every error_budget of the catalog divides One.
budget_remaining(slo_name, compliance_ratio) ==
    LET target == SLO_DEFINITIONS[slo_name].target
        error_budget == SLO_DEFINITIONS[slo_name].error_budget
        budget_used_ratio == ((target - compliance_ratio) * One) \div error_budget
    IN  IF compliance_ratio < target
        THEN Max(0, One - budget_used_ratio)
        ELSE One

\* The log record emitted when the budget is getting low.
budget_logs(budget) ==
    IF budget < 200 THEN <<"warning:budget_critically_low">>
    ELSE IF budget < 500 THEN <<"info:budget_below_50">>
    ELSE <<>>

\* The compliance gauge set before the SLO name is validated.
update_compliance_any_slo(gauge, endpoint, slo_name, compliance_ratio, window) ==
    IF In(window, VALID_WINDOWS)
    THEN set(gauge, <<endpoint, slo_name, window>>, compliance_ratio)
    ELSE gauge

\* The compliance gauge after update_slo_compliance.
update_compliance(gauge, endpoint, slo_name, compliance_ratio, window) ==
    IF update_accepted(slo_name, window)
    THEN set(gauge, <<endpoint, slo_name, window>>, compliance_ratio)
    ELSE gauge

\* The error budget written for the "immediate" window as for the others.
update_budget_every_window(gauge, slo_name, compliance_ratio, window) ==
    IF update_accepted(slo_name, window)
    THEN set(gauge, <<slo_name, window>>, budget_remaining(slo_name, compliance_ratio))
    ELSE gauge

\* The error-budget gauge after update_slo_compliance.
update_budget(gauge, slo_name, compliance_ratio, window) ==
    IF update_accepted(slo_name, window) /\ window # "immediate"
    THEN set(gauge, <<slo_name, window>>, budget_remaining(slo_name, compliance_ratio))
    ELSE gauge

\* What update_slo_compliance logs.
update_logs(slo_name, compliance_ratio, window) ==
    IF ~In(window, VALID_WINDOWS) THEN <<"warning:invalid_window">>
    ELSE IF slo_name \notin DOMAIN SLO_DEFINITIONS THEN <<"warning:unknown_slo">>
    ELSE IF window # "immediate"
         THEN budget_logs(budget_remaining(slo_name, compliance_ratio))
         ELSE <<>>

update_slo_compliance(endpoint, slo_name, compliance_ratio, window) ==
    /\ calls < MaxUpdates
    /\ calls' = calls + 1
    /\ SLO_COMPLIANCE' =
           update_compliance(SLO_COMPLIANCE, endpoint, slo_name, compliance_ratio, window)
    /\ SLO_ERROR_BUDGET' = update_budget(SLO_ERROR_BUDGET, slo_name, compliance_ratio, window)
    /\ ret' = [op |-> "update_slo_compliance", endpoint |-> endpoint, slo |-> slo_name,
               ratio |-> compliance_ratio, window |-> window,
               raised |-> "none", logs |-> update_logs(slo_name, compliance_ratio, window)]
    /\ UNCHANGED <<SLO_LATENCY_BUCKET, SLO_ERROR_COUNTER, pc, frame, trace, analysis, redis, repo, tracked>>

Evaluate ==
    \E endpoint \in Endpoints, slo_name \in EvalSlos, compliance_ratio \in Ratios,
       window \in Windows :
        update_slo_compliance(endpoint, slo_name, compliance_ratio, window)

(***************************************************************************)
(* slo_manager: reading the gauges back and showing the status.            *)
(***************************************************************************)
\* slo_manager.SLO_DEFINITIONS[slo]["windows"]
cli_windows(slo_name) == <<"5m", "1h", "24h">>

\* The values of the compliance series labelled slo and window, one per
\* endpoint that has one.
query_compliance(slo_name, window) ==
    {SLO_COMPLIANCE[<<e, slo_name, window>>][1] :
        e \in {x \in Endpoints : SLO_COMPLIANCE[<<x, slo_name, window>>] # None}}

\* get_error_budget_remaining: None when the series does not exist.
get_error_budget_remaining(slo_name, window) == SLO_ERROR_BUDGET[<<slo_name, window>>]

\* The bands with the boundaries on the upper side.
health_band_inclusive(budget) ==
    IF budget >= 500 THEN "Healthy"
    ELSE IF budget >= 200 THEN "Monitor"
    ELSE "Critical"

\* The status shown beside a budget.
health_band(budget) ==
    IF budget > 500 THEN "Healthy"
    ELSE IF budget > 200 THEN "Monitor"
    ELSE "Critical"

\* The SLOs display_slo_status shows: the one asked for, or all ("" is no
\* --slo argument).
shown_slos(slo_arg) ==
    IF slo_arg # "" THEN {slo_arg} ELSE {"api_health", "external_data", "data_access"}

\* The error-budget rows of the status tables.
budget_rows(slo_arg) ==
    {[slo |-> s, window |-> cli_windows(s)[i],
      budget |-> get_error_budget_remaining(s, cli_windows(s)[i])[1],
      band |-> health_band(get_error_budget_remaining(s, cli_windows(s)[i])[1])] :
        <<s, i>> \in {<<x, j>> \in shown_slos(slo_arg) \X (1..3) :
                          get_error_budget_remaining(x, cli_windows(x)[j]) # None}}

display_slo_status(slo_arg) ==
    /\ ret' = IF slo_arg # "" /\ slo_arg \notin {"api_health", "external_data", "data_access"}
              THEN [op |-> "display_slo_status", slo |-> slo_arg, rows |-> {},
                    raised |-> "none", logs |-> <<"error:unknown_slo">>]
              ELSE [op |-> "display_slo_status", slo |-> slo_arg,
                    rows |-> budget_rows(slo_arg), raised |-> "none", logs |-> <<>>]
    /\ UNCHANGED <<metrics, calls, pc, frame, trace, analysis, redis, repo, tracked>>

Display == \E slo_arg \in EvalSlos \cup {""} : display_slo_status(slo_arg)

\* query_prometheus: the series of the answer; when the request fails the
\* error is printed and an answer without series is returned.
query_prometheus(series, reachable) == IF reachable THEN series ELSE {}

\* What query_prometheus prints.
query_logs(reachable) == IF reachable THEN <<>> ELSE <<"error:querying_prometheus">>

\* get_slo_compliance: None when the answer holds no series, else the value
\* of its first series (the order of the answer is the sink's).  The one
\* requests.get of query_prometheus is the only attempt.
get_slo_compliance(slo_name, window, reachable) ==
    /\ \E value \in IF query_prometheus(query_compliance(slo_name, window), reachable) = {}
                    THEN {None}
                    ELSE {Some(v) : v \in query_prometheus(query_compliance(slo_name, window),
                                                          reachable)} :
           ret' = [op |-> "get_slo_compliance", slo |-> slo_name, window |-> window,
                   reachable |-> reachable, attempts |-> 1,
                   value |-> value, raised |-> "none", logs |-> query_logs(reachable)]
    /\ UNCHANGED <<metrics, calls, pc, frame, trace, analysis, redis, repo, tracked>>

\* The evaluator and the status display.
Next == Evaluate \/ Display

Spec == InitMetrics /\ [][Next]_vars

IsUpdate(r) == r.op = "update_slo_compliance"

\* The last call was a window-based update of a known SLO that the function
\* accepted.
WindowedUpdate(r) ==
    /\ IsUpdate(r)
    /\ r.slo \in {"api_health", "external_data", "data_access"}
    /\ r.window \in {"5m", "1h", "24h"}

\* C1: a window-based update of a known SLO with target T and error budget B
\* sets the error-budget gauge of (slo, window) to 1.0 when c >= T and to
\* 1 - min(1, (T - c) / B) otherwise; with T = 0.95 and B = 0.05, c = 0.93
\* gives 0.6 and c = 0.90 gives 0.0.
C1_BudgetFormula ==
    WindowedUpdate(ret) =>
        LET T == SLO_DEFINITIONS[ret.slo].target
            B == SLO_DEFINITIONS[ret.slo].error_budget
            written == SLO_ERROR_BUDGET[<<ret.slo, ret.window>>]
        IN  /\ written # None
            /\ ret.ratio >= T => written[1] = One
            /\ ret.ratio < T => (One - written[1]) * B = Min(One * B, (T - ret.ratio) * One)
            /\ (T = 950 /\ B = 50 /\ ret.ratio = 930) => written[1] = 600
            /\ (T = 950 /\ B = 50 /\ ret.ratio = 900) => written[1] = 0

\* The update of the first scenario has been made: 0.93 against 0.95 / 0.05.
C1_Witness ==
    /\ WindowedUpdate(ret)
    /\ ret.slo = "api_health"
    /\ ret.ratio = 930
    /\ SLO_ERROR_BUDGET[<<"api_health", ret.window>>] = Some(600)

BudgetInRange ==
    \A k \in BudgetKeys :
        SLO_ERROR_BUDGET[k] # None => (0 <= SLO_ERROR_BUDGET[k][1] /\ SLO_ERROR_BUDGET[k][1] <= One)

\* Two window-based updates of one SLO in a row, the second with a ratio
\* that is lower and below the target: the second writes no more than the
\* first wrote.
BudgetMonotone ==
    (/\ WindowedUpdate(ret) /\ WindowedUpdate(ret') /\ calls' = calls + 1
     /\ ret'.slo = ret.slo
     /\ ret'.ratio <= ret.ratio
     /\ ret'.ratio < SLO_DEFINITIONS[ret.slo].target)
        => SLO_ERROR_BUDGET'[<<ret'.slo, ret'.window>>][1]
               <= SLO_ERROR_BUDGET[<<ret.slo, ret.window>>][1]

\* C2: after any sequence of updates every value of the error-budget gauge
\* lies in [0, 1], and for a fixed SLO the value written does not increase
\* as the compliance ratio supplied decreases below the target.
C2_BudgetRangeAndMonotone == [](BudgetInRange) /\ [][BudgetMonotone]_vars

\* A second update has been made whose ratio is so far below the target that
\* the budget used exceeds 1.
C2_Witness ==
    /\ WindowedUpdate(ret)
    /\ calls = 2
    /\ (SLO_DEFINITIONS[ret.slo].target - ret.ratio) > SLO_DEFINITIONS[ret.slo].error_budget
    /\ SLO_ERROR_BUDGET[<<ret.slo, ret.window>>] = Some(0)

\* C4: the band shown for a budget b is healthy exactly when b > 0.5, warn
\* ("Monitor") exactly when 0.2 < b <= 0.5 and critical exactly when
\* b <= 0.2.
C4_HealthBands ==
    ret.op = "display_slo_status" =>
        \A row \in ret.rows :
            /\ row.band \in {"Healthy", "Monitor", "Critical"}
            /\ row.band = "Healthy" <=> 2 * row.budget > One
            /\ row.band = "Monitor" <=> (5 * row.budget > One /\ 2 * row.budget <= One)
            /\ row.band = "Critical" <=> 5 * row.budget <= One

\* The status shows one budget of exactly 0.5 as warn and one of exactly 0.2
\* as critical.
C4_Witness ==
    /\ ret.op = "display_slo_status"
    /\ \E r1, r2 \in ret.rows :
           /\ r1.budget = 500 /\ r1.band = "Monitor"
           /\ r2.budget = 200 /\ r2.band = "Critical"

C6_InvalidWindowRaises ==
    [][ (/\ IsUpdate(ret') /\ calls' = calls + 1
         /\ ret'.slo \in {"api_health", "external_data", "data_access"}
         /\ ~In(ret'.window, SLO_DEFINITIONS[ret'.slo].windows))
          => /\ ret'.raised = "InvalidWindowError"
             /\ SLO_COMPLIANCE' = SLO_COMPLIANCE
             /\ SLO_ERROR_BUDGET' = SLO_ERROR_BUDGET ]_vars

(***************************************************************************)
(* The health endpoint (main.health_check) and the compliance it reports.  *)
(***************************************************************************)
\* How long a health check takes, in milliseconds.
Durations == {50, 150}

\* One GET /health: the database and cache checks, then the SLO recording
\* and the "immediate" compliance update.
health_check(db_healthy, redis_healthy, duration) ==
    LET is_error == ~db_healthy \/ ~redis_healthy IN
    /\ calls < MaxRequests
    /\ calls' = calls + 1
    /\ SLO_LATENCY_BUCKET' =
           track_latency(SLO_LATENCY_BUCKET, "health_check", "api_health", duration)
    /\ SLO_ERROR_COUNTER' =
           track_errors(SLO_ERROR_COUNTER, "health_check", "api_health", is_error)
    /\ SLO_COMPLIANCE' =
           update_compliance(SLO_COMPLIANCE, "health_check", "api_health",
                             IF is_error THEN 0 ELSE One, "immediate")
    /\ SLO_ERROR_BUDGET' =
           update_budget(SLO_ERROR_BUDGET, "api_health",
                         IF is_error THEN 0 ELSE One, "immediate")
    /\ ret' = [op |-> "health_check",
               status |-> IF db_healthy /\ redis_healthy THEN "operational" ELSE "degraded",
               raised |-> "none"]
    /\ UNCHANGED <<pc, frame, trace, analysis, redis, repo, tracked>>

Serve ==
    \E db_healthy \in BOOLEAN, redis_healthy \in BOOLEAN, duration \in Durations :
        health_check(db_healthy, redis_healthy, duration)

ReadCompliance ==
    \E slo_name \in {"api_health", "external_data"}, window \in {"immediate", "5m"},
       reachable \in BOOLEAN :
        get_slo_compliance(slo_name, window, reachable)

\* The service answering health checks while the CLI reads the compliance.
SpecHealth == InitMetrics /\ [][Serve \/ ReadCompliance]_vars

\* The observations recorded for an SLO, over all its endpoints.
SloSamples(slo_name) ==
    LET keys == {k \in SeriesKeys : k[2] = slo_name}
        sum[S \in SUBSET keys] ==
            IF S = {} THEN EmptyBag
            ELSE LET k == CHOOSE x \in S : TRUE IN SLO_LATENCY_BUCKET[k] (+) sum[S \ {k}]
    IN  sum[keys]

\* total and hits of an SLO: the observations, and those within the latency
\* target.
Total(slo_name) == BagCardinality(SloSamples(slo_name))

Hits(slo_name) ==
    LET within == [v \in {x \in BagToSet(SloSamples(slo_name)) :
                              x <= SLO_DEFINITIONS[slo_name].latency_target}
                      |-> SloSamples(slo_name)[v]]
    IN  BagCardinality(within)

\* C3: the compliance ratio read for (slo, window) is hits / total when
\* total > 0 and 1.0 when total = 0.
C3_RatioIsHitsOverTotal ==
    (ret.op = "get_slo_compliance" /\ ret.reachable) =>
        /\ ret.value # None
        /\ Total(ret.slo) > 0 => ret.value[1] * Total(ret.slo) = Hits(ret.slo) * One
        /\ Total(ret.slo) = 0 => ret.value[1] = One

(***************************************************************************)
(* Further properties of update_slo_compliance and of the readers.         *)
(***************************************************************************)
\* The SLO names of the catalog.
KnownSlos == DOMAIN SLO_DEFINITIONS

\* b is the budget remaining that the ratio c leaves of the SLO's budget.
DerivedFrom(slo_name, c, b) ==
    LET T == SLO_DEFINITIONS[slo_name].target
        B == SLO_DEFINITIONS[slo_name].error_budget
    IN  IF c >= T THEN b = One
        ELSE (One - b) * B = Min(One * B, (T - c) * One)

\* C11: the budget-remaining gauge is kept per (endpoint, slo, window): after
\* any sequence of updates the budget remaining of each endpoint is the one
\* derived from that endpoint's own latest compliance ratio.
C11_BudgetPerEndpoint ==
    \A e \in Endpoints, s \in KnownSlos \cap SloNames, w \in {"5m", "1h", "24h"} :
        SLO_COMPLIANCE[<<e, s, w>>] # None =>
            /\ SLO_ERROR_BUDGET[<<s, w>>] # None
            /\ DerivedFrom(s, SLO_COMPLIANCE[<<e, s, w>>][1], SLO_ERROR_BUDGET[<<s, w>>][1])

\* C12: an update naming an SLO outside the catalog raises nothing and
\* leaves the compliance gauge and the error-budget gauge as they were.
C12_UnknownSloIsNoOp ==
    [][ (IsUpdate(ret') /\ calls' = calls + 1 /\ ret'.slo \notin KnownSlos)
          => /\ ret'.raised = "none"
             /\ SLO_COMPLIANCE' = SLO_COMPLIANCE
             /\ SLO_ERROR_BUDGET' = SLO_ERROR_BUDGET ]_vars

\* An update of an unknown SLO with an accepted window has returned while a
\* known SLO already has its gauges set.
C12_Witness ==
    /\ IsUpdate(ret)
    /\ ret.slo \notin KnownSlos
    /\ ret.window = "5m"
    /\ \E k \in BudgetKeys : SLO_ERROR_BUDGET[k] # None

\* C13: a read while the sink is unreachable makes one attempt and hands the
\* caller an outcome other than the "no data" one (None).
C13_UnavailableIsDistinct ==
    (ret.op = "get_slo_compliance" /\ ~ret.reachable) =>
        /\ ret.attempts = 1
        /\ ret.raised # "none" \/ ret.value # None

\* C14: an update repeated with the same endpoint, SLO, ratio and window
\* leaves both gauges as the first call left them.
C14_UpdateIdempotent ==
    [][ (/\ IsUpdate(ret) /\ IsUpdate(ret') /\ calls' = calls + 1
         /\ ret'.endpoint = ret.endpoint /\ ret'.slo = ret.slo
         /\ ret'.ratio = ret.ratio /\ ret'.window = ret.window)
          => /\ SLO_COMPLIANCE' = SLO_COMPLIANCE
             /\ SLO_ERROR_BUDGET' = SLO_ERROR_BUDGET ]_vars

\* Two window-based updates have been made and the only series that exist
\* are those of the last call, holding its ratio and the budget it leaves.
C14_Witness ==
    /\ WindowedUpdate(ret)
    /\ calls = 2
    /\ ret.ratio = 930
    /\ \A k \in GaugeKeys :
           SLO_COMPLIANCE[k] = IF k = <<ret.endpoint, ret.slo, ret.window>>
                               THEN Some(ret.ratio) ELSE None
    /\ SLO_ERROR_BUDGET[<<ret.slo, ret.window>>] = Some(600)

(***************************************************************************)
(* scripts/trace_analyze.py: the analysis of one Jaeger trace.  Start      *)
(* times and durations are in microseconds as Jaeger reports them; the     *)
(* millisecond outputs are held in thousandths of a millisecond.           *)
(***************************************************************************)
MaxSpans == 3
MaxAnalyses == 2

\* A tag of a span; type tells the JSON string "true" from the boolean true.
Tag(key, type, value) == [key |-> key, type |-> type, value |-> value]

\* A span; processID "" stands for a span without the key (both are falsy
\* for the test "if process_id and ...").
Span(startTime, duration, processID, operationName, tags) ==
    [startTime |-> startTime, duration |-> duration, processID |-> processID,
     operationName |-> operationName, tags |-> tags, logs |-> <<>>]

\* The spans traces are built from: the timings of the documented scenario
\* and a span that starts where another ends, every kind of processID,
\* every kind of error tag, and durations at and above 100 ms.
Spans ==
    { Span(0, 50, "p1", "a", <<>>),
      Span(10, 20, "p1", "b", <<Tag("error", "str", "true")>>),
      Span(60, 30, "p1", "c", <<Tag("error", "str", "false")>>),
      Span(50, 10, "p2", "d", <<>>),
      Span(0, 0, "", "e", <<Tag("error", "str", "true")>>),
      Span(10, 20, "p9", "f", <<Tag("other", "str", "true")>>),
      Span(60, 30, "p3", "g", <<Tag("error", "bool", "true")>>),
      Span(0, 100000, "p2", "h",
           <<Tag("error", "str", "false"), Tag("error", "str", "true")>>),
      Span(60, 100001, "p1", "i", <<Tag("error", "str", "True")>>),
      Span(10, 250000, "", "j",
           <<Tag("error", "str", "true"), Tag("error", "str", "true")>>) }

\* The process map of a trace: p3 is a process without a serviceName.
Processes == [p \in {"p1", "p2", "p3"} |->
                 IF p = "p1" THEN Some("api") ELSE IF p = "p2" THEN Some("db") ELSE None]

SpanLists == UNION { [1..n -> Spans] : n \in 0..MaxSpans }

\* The traces analysed: with the process map, and without the "processes" key.
Traces == [spans : SpanLists, processes : {Processes, <<>>}]

\* The span of time the trace covers: the latest end minus the earliest start.
total_duration_wall_clock(spans) ==
    IF spans = <<>> THEN 0
    ELSE LET ends == {spans[i].startTime + spans[i].duration : i \in DOMAIN spans}
             starts == {spans[i].startTime : i \in DOMAIN spans}
         IN  (CHOOSE e \in ends : \A x \in ends : x <= e)
               - (CHOOSE b \in starts : \A x \in starts : b <= x)

\* max(durations, default=-1): a trace without spans gets no zero.
total_duration_default_negative(spans) ==
    LET durations == {spans[i].duration : i \in DOMAIN spans}
    IN  IF spans = <<>> THEN -1 ELSE CHOOSE d \in durations : \A x \in durations : x <= d

\* max(durations) if durations else 0
total_duration(spans) ==
    LET durations == {spans[i].duration : i \in DOMAIN spans}
    IN  IF spans = <<>> THEN 0 ELSE CHOOSE d \in durations : \A x \in durations : x <= d

\* duration / 1000: microseconds to milliseconds (in thousandths).
to_ms(duration) == (duration * One) \div 1000

\* process_id and process_id in processes
resolvable(span, processes) ==
    span.processID # "" /\ span.processID \in DOMAIN processes

\* processes[process_id].get("serviceName", "unknown")
serviceName(process) == IF process = None THEN "unknown" ELSE process[1]

\* The service a span is labelled with in the critical path, the errors and
\* the long operations.
service_of(span, processes) ==
    IF resolvable(span, processes) THEN serviceName(processes[span.processID])
    ELSE "unknown"

\* service_spans: the spans grouped by service; only spans whose processID
\* is in the process map are appended.
service_spans(spans, processes, service) ==
    SelectSeq(spans, LAMBDA span : resolvable(span, processes)
                                   /\ serviceName(processes[span.processID]) = service)

\* list(service_spans.keys()): the services in order of first appearance.
RECURSIVE service_keys(_, _)
service_keys(spans, processes) ==
    IF spans = <<>> THEN <<>>
    ELSE LET front == service_keys(SubSeq(spans, 1, Len(spans) - 1), processes)
             span == spans[Len(spans)]
             service == serviceName(processes[span.processID])
         IN  IF resolvable(span, processes) /\ ~In(service, front)
             THEN Append(front, service)
             ELSE front

RECURSIVE Sum(_)
Sum(seq) == IF seq = <<>> THEN 0 ELSE Head(seq) + Sum(Tail(seq))

\* The longest of the durations in place of their sum.
service_duration_longest(service_span_list) ==
    total_duration(service_span_list)

\* sum(span.get("duration", 0) for span in service_span_list)
service_duration(service_span_list) ==
    Sum([i \in DOMAIN service_span_list |-> service_span_list[i].duration])

\* spans.sort(key=startTime): the list of the trace itself is put in order.
spans_after_sorting_in_place(spans) ==
    LET RECURSIVE in_order(_)
        in_order(list) ==
            IF list = <<>> THEN <<>>
            ELSE LET front == in_order(SubSeq(list, 1, Len(list) - 1))
                     span == list[Len(list)]
                     n == Cardinality({i \in DOMAIN front :
                                          front[i].startTime <= span.startTime})
                 IN  SubSeq(front, 1, n) \o <<span>> \o SubSeq(front, n + 1, Len(front))
    IN  in_order(spans)

\* The list of the trace after sorted(spans, ...): sorted builds a new list
\* and leaves its argument as it was.
spans_after_sorting(spans) == spans

\* sorted(spans, key=startTime): a stable sort; each span is placed after
\* the spans already placed whose start is not later.
RECURSIVE sorted_spans(_)
sorted_spans(spans) ==
    IF spans = <<>> THEN <<>>
    ELSE LET front == sorted_spans(SubSeq(spans, 1, Len(spans) - 1))
             span == spans[Len(spans)]
             n == Cardinality({i \in DOMAIN front : front[i].startTime <= span.startTime})
         IN  SubSeq(front, 1, n) \o <<span>> \o SubSeq(front, n + 1, Len(front))

\* Every span is taken into the path.
path_admits_any(start, current_end) == TRUE

\* A span that starts exactly where the path ends is left out.
path_admits_strict(start, current_end) == start > current_end

\* if start >= current_end
path_admits(start, current_end) == start >= current_end

\* The loop over sorted_spans: a span that starts at or after the end of the
\* path is appended and moves the end.
RECURSIVE critical_path_from(_, _, _)
critical_path_from(spans, processes, current_end) ==
    IF spans = <<>> THEN <<>>
    ELSE LET span == Head(spans)
             start == span.startTime
             end == start + span.duration
         IN  IF path_admits(start, current_end)
             THEN <<[service |-> service_of(span, processes),
                     operation |-> span.operationName,
                     duration |-> span.duration,
                     start |-> start,
                     end |-> end]>>
                  \o critical_path_from(Tail(spans), processes, end)
             ELSE critical_path_from(Tail(spans), processes, current_end)

\* The critical path: the greedy walk from current_end = 0.
critical_path(spans, processes) ==
    critical_path_from(sorted_spans(spans), processes, 0)

\* A span is an error span whatever the value of its "error" tag.
has_error_any_value(tags) ==
    \E i \in DOMAIN tags : tags[i].key = "error"

\* The loop over the tags: tag.get("key") == "error" and tag.get("value") ==
\* "true"; the boolean true is not equal to the string.
has_error(tags) ==
    \E i \in DOMAIN tags :
        tags[i].key = "error" /\ tags[i].type = "str" /\ tags[i].value = "true"

\* The errors list: one entry for each span that has an error, in the order
\* of the spans.
RECURSIVE errors(_, _)
errors(spans, processes) ==
    IF spans = <<>> THEN <<>>
    ELSE LET span == Head(spans)
         IN  (IF has_error(span.tags)
              THEN <<[service |-> service_of(span, processes),
                      operation |-> span.operationName,
                      duration |-> span.duration,
                      logs |-> span.logs]>>
              ELSE <<>>)
             \o errors(Tail(spans), processes)

threshold_ms == 100

\* A span of exactly the threshold counts as long.
is_long_inclusive(duration) == to_ms(duration) >= threshold_ms * One

\* if duration_ms > threshold_ms
is_long(duration) == to_ms(duration) > threshold_ms * One

\* The long operations in the order of the spans.
RECURSIVE long_operations_unsorted(_, _)
long_operations_unsorted(spans, processes) ==
    IF spans = <<>> THEN <<>>
    ELSE LET span == Head(spans)
         IN  (IF is_long(span.duration)
              THEN <<[service |-> service_of(span, processes),
                      operation |-> span.operationName,
                      duration_ms |-> to_ms(span.duration)]>>
              ELSE <<>>)
             \o long_operations_unsorted(Tail(spans), processes)

\* long_operations.sort(key=duration_ms, reverse=True): stable, so entries
\* of equal duration keep their order.
RECURSIVE sort_by_duration_desc(_)
sort_by_duration_desc(ops) ==
    IF ops = <<>> THEN <<>>
    ELSE LET front == sort_by_duration_desc(SubSeq(ops, 1, Len(ops) - 1))
             op == ops[Len(ops)]
             n == Cardinality({i \in DOMAIN front : front[i].duration_ms >= op.duration_ms})
         IN  SubSeq(front, 1, n) \o <<op>> \o SubSeq(front, n + 1, Len(front))

long_operations(spans, processes) ==
    sort_by_duration_desc(long_operations_unsorted(spans, processes))

\* analyze_trace: the analysis of a trace.
analyze_trace(t) ==
    LET spans == t.spans
        processes == t.processes
        services == service_keys(spans, processes)
    IN  [span_count |-> Len(spans),
         total_duration_ms |-> to_ms(total_duration(spans)),
         services |-> services,
         service_count |-> Len(services),
         service_durations |->
             [service \in {services[i] : i \in DOMAIN services} |->
                 to_ms(service_duration(service_spans(spans, processes, service)))],
         errors |-> errors(spans, processes),
         critical_path |-> critical_path(spans, processes),
         long_operations |-> long_operations(spans, processes)]

\* The trace after analyze_trace: the only statement that handles the span
\* list other than by reading it is the sort of line 106.
trace_after_analysis(t) ==
    [spans |-> IF t.spans = <<>> THEN t.spans ELSE spans_after_sorting(t.spans),
     processes |-> t.processes]

\* The script analyses the trace it holds (once more, when it has already).
Analyze ==
    /\ calls < MaxAnalyses
    /\ analysis' = Some(analyze_trace(trace))
    /\ trace' = trace_after_analysis(trace)
    /\ calls' = calls + 1
    /\ UNCHANGED <<metrics, ret, pc, frame, redis, repo, tracked>>

\* The script runs in a process of its own: no metric has been recorded.
InitTrace ==
    /\ SLO_LATENCY_BUCKET = [k \in SeriesKeys |-> EmptyBag]
    /\ SLO_ERROR_COUNTER = [k \in SeriesKeys |-> 0]
    /\ SLO_COMPLIANCE = [k \in GaugeKeys |-> None]
    /\ SLO_ERROR_BUDGET = [k \in BudgetKeys |-> None]
    /\ InitTracked
    /\ ret = NoCall
    /\ calls = 0
    /\ pc = [t \in Threads |-> "idle"]
    /\ frame = [t \in Threads |-> NoCall]
    /\ trace \in Traces
    /\ analysis = None
    /\ redis = NoCall
    /\ repo = NoCall

SpecTrace == InitTrace /\ [][Analyze]_vars

(***************************************************************************)
(* Properties of analyze_trace.                                            *)
(***************************************************************************)
Analysed == analysis # None

\* The timings <<start, end>> of the entries of a critical path.
Timings(path) == [i \in DOMAIN path |-> <<path[i].start, path[i].end>>]

\* C15: the critical path is in ascending order of start and its entries do
\* not overlap: each entry ends (end = start + duration) no later than the
\* next one starts.
C15_PathAscendingNonOverlapping ==
    Analysed =>
        LET path == analysis[1].critical_path
        IN  /\ \A i \in DOMAIN path : path[i].end = path[i].start + path[i].duration
            /\ \A i \in 1..(Len(path) - 1) :
                   /\ path[i].start <= path[i + 1].start
                   /\ path[i].end <= path[i + 1].start

\* A trace in which a span overlaps another has been analysed: its path has
\* two entries and leaves a span out.
C15_Witness ==
    /\ Analysed
    /\ Len(analysis[1].critical_path) = 2
    /\ Len(trace.spans) = 3
    /\ \E i, j \in DOMAIN trace.spans :
           /\ trace.spans[i].startTime < trace.spans[j].startTime
           /\ trace.spans[j].startTime < trace.spans[i].startTime + trace.spans[i].duration

\* The end of the last span before position i that the choice taken puts
\* on the path, 0 when there is none.
EndBefore(spans, taken, i) ==
    LET before == {j \in 1..(i - 1) : taken[j]}
    IN  IF before = {} THEN 0
        ELSE LET last == CHOOSE j \in before : \A k \in before : k <= j
             IN  spans[last].startTime + spans[last].duration

\* taken is the greedy choice over the spans in order of start: a span is
\* taken if and only if it starts at or after the end of the span taken last.
IsGreedyChoice(spans, taken) ==
    \A i \in DOMAIN spans :
        taken[i] <=> spans[i].startTime >= EndBefore(spans, taken, i)

\* The timings of the spans a choice takes, in order.
RECURSIVE TakenTimings(_, _)
TakenTimings(spans, taken) ==
    IF spans = <<>> THEN <<>>
    ELSE LET n == Len(spans)
             front == TakenTimings(SubSeq(spans, 1, n - 1), SubSeq(taken, 1, n - 1))
         IN  IF taken[n]
             THEN Append(front, <<spans[n].startTime,
                                  spans[n].startTime + spans[n].duration>>)
             ELSE front

\* The spans given are those of the documented scenario, in its order.
IsScenario(spans) ==
    [i \in DOMAIN spans |-> <<spans[i].startTime, spans[i].duration>>]
        = << <<0, 50>>, <<10, 20>>, <<60, 30>> >>

\* C16: the critical path is the greedy chain over the spans sorted by start
\* with the end initially 0: a span is on the path iff it starts at or after
\* the end of the span included last (so an omitted span starts before that
\* end); the spans (0,50),(10,20),(60,30) give the path (0-50),(60-90).
C16_PathIsGreedyChain ==
    Analysed =>
        LET sorted == sorted_spans(trace.spans)
            path == analysis[1].critical_path
        IN  /\ \E taken \in [DOMAIN sorted -> BOOLEAN] :
                   /\ IsGreedyChoice(sorted, taken)
                   /\ Timings(path) = TakenTimings(sorted, taken)
                   /\ \A i \in DOMAIN sorted :
                          ~taken[i] => sorted[i].startTime < EndBefore(sorted, taken, i)
            /\ IsScenario(trace.spans) => Timings(path) = << <<0, 50>>, <<60, 90>> >>

\* The scenario has been analysed.
C16_Witness ==
    /\ Analysed
    /\ IsScenario(trace.spans)
    /\ Len(analysis[1].critical_path) = 2

\* C17: every span is attributed to one service, "unknown" when its
\* processID is missing or not in the process map, in all outputs alike: the
\* service a span is labelled with is among the services, and the spans
\* grouped per service are as many as the spans of the trace.
C17_EverySpanAttributed ==
    Analysed =>
        LET services == analysis[1].services
        IN  /\ \A i \in DOMAIN trace.spans :
                   In(service_of(trace.spans[i], trace.processes), services)
            /\ Sum([i \in DOMAIN services |->
                       Len(service_spans(trace.spans, trace.processes, services[i]))])
                 = analysis[1].span_count

\* C18: for every service in the analysis, the per-service duration is the
\* sum of the durations of the spans whose process resolves to the service,
\* each counted in full.
C18_ServiceDurationIsSum ==
    Analysed =>
        \A s \in DOMAIN analysis[1].service_durations :
            LET own == {i \in DOMAIN trace.spans :
                           /\ trace.spans[i].processID \in DOMAIN trace.processes
                           /\ serviceName(trace.processes[trace.spans[i].processID]) = s}
            IN  analysis[1].service_durations[s]
                  = to_ms(Sum([i \in DOMAIN trace.spans |->
                                  IF i \in own THEN trace.spans[i].duration ELSE 0]))

\* A service with two overlapping spans has been analysed: its duration is
\* more than the total duration of the trace.
C18_Witness ==
    /\ Analysed
    /\ \E s \in DOMAIN analysis[1].service_durations :
           /\ Len(service_spans(trace.spans, trace.processes, s)) >= 2
           /\ analysis[1].service_durations[s] > analysis[1].total_duration_ms

\* C19: the total duration is the longest duration of a single span, and 0
\* for a trace without spans.
C19_TotalIsLongestSpan ==
    Analysed =>
        IF trace.spans = <<>>
        THEN analysis[1].total_duration_ms = 0
        ELSE /\ \E i \in DOMAIN trace.spans :
                    analysis[1].total_duration_ms = to_ms(trace.spans[i].duration)
             /\ \A i \in DOMAIN trace.spans :
                    to_ms(trace.spans[i].duration) <= analysis[1].total_duration_ms

\* A trace has been analysed whose longest span is shorter than the time
\* between its earliest start and its latest end.
C19_Witness ==
    /\ Analysed
    /\ Len(trace.spans) >= 2
    /\ analysis[1].total_duration_ms < to_ms(total_duration_wall_clock(trace.spans))

\* The span carries a tag with key "error" and the string "true" as value.
TaggedError(span) ==
    \E tag \in {span.tags[i] : i \in DOMAIN span.tags} :
        tag = Tag("error", "str", "true")

\* C20: the errors list holds exactly the spans that carry a tag with key
\* "error" and value the string "true", once each and in input order; a
\* span tagged error="false" or without an error tag is not in it.
C20_ErrorsAreTaggedSpans ==
    Analysed =>
        LET tagged == SelectSeq(trace.spans, TaggedError)
            errs == analysis[1].errors
        IN  /\ Len(errs) = Len(tagged)
            /\ \A i \in DOMAIN errs :
                   /\ errs[i].operation = tagged[i].operationName
                   /\ errs[i].duration = tagged[i].duration

\* A trace with a span tagged error="true" twice, a span tagged
\* error="false" and a span tagged with the boolean has been analysed.
C20_Witness ==
    /\ Analysed
    /\ Len(analysis[1].errors) = 1
    /\ \E i, j, k \in DOMAIN trace.spans :
           /\ trace.spans[i].tags = <<Tag("error", "str", "true"), Tag("error", "str", "true")>>
           /\ trace.spans[j].tags = <<Tag("error", "str", "false")>>
           /\ trace.spans[k].tags = <<Tag("error", "bool", "true")>>

\* The operations of the spans of the trace that last longer than 100 ms.
LongSpans == SelectSeq(trace.spans, LAMBDA span : span.duration > 100000)

\* C21: long_operations holds the spans that last strictly more than 100 ms
\* (a span of exactly 100000 microseconds is not among them), one entry for
\* each, in non-increasing order of duration.
C21_LongOperations ==
    Analysed =>
        LET ops == analysis[1].long_operations
        IN  /\ Len(ops) = Len(LongSpans)
            /\ \A name \in {LongSpans[i].operationName : i \in DOMAIN LongSpans}
                       \cup {ops[i].operation : i \in DOMAIN ops} :
                   Cardinality({i \in DOMAIN ops : ops[i].operation = name})
                     = Cardinality({i \in DOMAIN LongSpans : LongSpans[i].operationName = name})
            /\ \A i \in DOMAIN ops :
                   \E j \in DOMAIN LongSpans :
                       /\ ops[i].operation = LongSpans[j].operationName
                       /\ ops[i].duration_ms = to_ms(LongSpans[j].duration)
            /\ \A i \in 1..(Len(ops) - 1) : ops[i].duration_ms >= ops[i + 1].duration_ms

\* A trace with a span of exactly 100 ms after which two longer spans come
\* in ascending order of duration has been analysed.
C21_Witness ==
    /\ Analysed
    /\ Len(trace.spans) = 3
    /\ trace.spans[1].duration = 100000
    /\ trace.spans[2].duration = 100001
    /\ trace.spans[3].duration = 250000
    /\ Len(analysis[1].long_operations) = 2

\* C22: the analysis of a trace without spans has span_count 0, total
\* duration 0 and no services, per-service durations, critical path, errors
\* or long operations.
C22_EmptyTrace ==
    (Analysed /\ trace.spans = <<>>) =>
        /\ analysis[1].span_count = 0
        /\ analysis[1].total_duration_ms = 0
        /\ analysis[1].services = <<>>
        /\ analysis[1].service_count = 0
        /\ DOMAIN analysis[1].service_durations = {}
        /\ analysis[1].critical_path = <<>>
        /\ analysis[1].errors = <<>>
        /\ analysis[1].long_operations = <<>>

\* A trace with processes and no spans has been analysed.
C22_Witness ==
    /\ Analysed
    /\ trace.spans = <<>>
    /\ trace.processes = Processes

C25_ImmediateSetsComplianceOnly ==
    [][ (/\ IsUpdate(ret') /\ calls' = calls + 1
         /\ ret'.window = "immediate" /\ ret'.slo \in KnownSlos)
          => /\ SLO_ERROR_BUDGET' = SLO_ERROR_BUDGET
             /\ SLO_COMPLIANCE' =
                    [SLO_COMPLIANCE EXCEPT ![<<ret'.endpoint, ret'.slo, "immediate">>] =
                         Some(ret'.ratio)]
             /\ ret'.logs = <<>> ]_vars

\* After a window-based update has set a budget, an "immediate" update has
\* been made with a ratio far below the target.
C25_Witness ==
    /\ IsUpdate(ret)
    /\ ret.window = "immediate"
    /\ ret.slo = "api_health"
    /\ ret.ratio = -50
    /\ SLO_COMPLIANCE[<<ret.endpoint, "api_health", "immediate">>] = Some(-50)
    /\ SLO_ERROR_BUDGET[<<"api_health", "5m">>] = Some(One)

(***************************************************************************)
(* One HTTP request: the route handler, then TracingMetricsMiddleware      *)
(* (middleware/tracing_middleware.py), which wraps every route.            *)
(***************************************************************************)
\* What can happen to a request: the handler returns, the handler raises an
\* exception that is not an HTTPException, or a dependency of the route
\* (authentication) answers 401 before the handler runs.
Outcomes == {"returns", "raises", "rejected"}

\* The outcomes each handler has: health_check catches the failures of its
\* checks and has no dependency.
OutcomesOf(endpoint) == IF endpoint = "health_check" THEN {"returns"} ELSE Outcomes

\* The SLO a handler records its requests under.
handler_slo(endpoint) == IF endpoint = "health_check" THEN "api_health" ELSE "data_access"

\* The handler calls track_request_for_slo (on both of its paths), unless it
\* never ran.
handler_tracks(outcome) == outcome # "rejected"

\* is_error as the handler passes it: health_check reports an unhealthy
\* component, read_users the except branch.
handler_is_error(endpoint, outcome, healthy) ==
    IF endpoint = "health_check" THEN ~healthy ELSE outcome = "raises"

\* The status of the response call_next returns; health_check answers 200
\* also when degraded.
status_code(outcome) == IF outcome = "rejected" THEN 401 ELSE 200

\* has_slo = endpoint_name in [...]
has_slo(endpoint_name) ==
    In(endpoint_name, <<"read_root", "health_check", "get_external_data",
                        "read_users", "read_items">>)

\* The SLO name the middleware maps the endpoint to.
middleware_slo_name(endpoint_name) ==
    IF In(endpoint_name, <<"read_root", "health_check">>) THEN "api_health"
    ELSE IF endpoint_name = "get_external_data" THEN "external_data"
    ELSE "data_access"

\* The middleware records the request: call_next returned a response (the
\* except branch records no SLO) and the endpoint has an SLO.
middleware_tracks(endpoint_name, outcome) ==
    outcome # "raises" /\ has_slo(endpoint_name)

\* One request to the endpoint: the handler's recording (and, in
\* health_check, the "immediate" compliance update), then the middleware's.
dispatch(endpoint, outcome, healthy, duration, total) ==
    LET slo == handler_slo(endpoint)
        h_error == handler_is_error(endpoint, outcome, healthy)
        hist1 == IF handler_tracks(outcome)
                 THEN track_latency(SLO_LATENCY_BUCKET, endpoint, slo, duration)
                 ELSE SLO_LATENCY_BUCKET
        errs1 == IF handler_tracks(outcome)
                 THEN track_errors(SLO_ERROR_COUNTER, endpoint, slo, h_error)
                 ELSE SLO_ERROR_COUNTER
        m_slo == middleware_slo_name(endpoint)
        m_error == status_code(outcome) >= 400
    IN  /\ calls < MaxRequests
        /\ calls' = calls + 1
        /\ SLO_LATENCY_BUCKET' =
               IF middleware_tracks(endpoint, outcome)
               THEN track_latency(hist1, endpoint, m_slo, total)
               ELSE hist1
        /\ SLO_ERROR_COUNTER' =
               IF middleware_tracks(endpoint, outcome)
               THEN track_errors(errs1, endpoint, m_slo, m_error)
               ELSE errs1
        /\ SLO_COMPLIANCE' =
               IF endpoint = "health_check"
               THEN update_compliance(SLO_COMPLIANCE, endpoint, slo,
                                      IF h_error THEN 0 ELSE One, "immediate")
               ELSE SLO_COMPLIANCE
        /\ SLO_ERROR_BUDGET' =
               IF endpoint = "health_check"
               THEN update_budget(SLO_ERROR_BUDGET, slo,
                                  IF h_error THEN 0 ELSE One, "immediate")
               ELSE SLO_ERROR_BUDGET
        /\ ret' = [op |-> "dispatch", endpoint |-> endpoint, slo |-> slo,
                   outcome |-> outcome, status_code |-> status_code(outcome),
                   raised |-> IF outcome = "raises" THEN "Exception" ELSE "none"]
        /\ UNCHANGED <<pc, frame, trace, analysis, redis, repo, tracked>>

\* The middleware's timer surrounds the handler's.
Request ==
    \E endpoint \in Endpoints, healthy \in BOOLEAN,
       duration \in Durations, total \in Durations :
        \E outcome \in OutcomesOf(endpoint) :
            /\ total >= duration
            /\ dispatch(endpoint, outcome, healthy, duration, total)

\* The service answering requests to its SLO-covered endpoints.
SpecRequests == InitMetrics /\ [][Request]_vars

\* C24: each request served by an SLO-covered endpoint leaves exactly one
\* latency sample in the (endpoint, slo) histogram and at most one increment
\* of its error counter, the handler's and the middleware's recordings
\* taken together.
C24_OneSamplePerRequest ==
    [][ (ret'.op = "dispatch" /\ calls' = calls + 1)
          => LET key == <<ret'.endpoint, ret'.slo>>
             IN  /\ SampleCount(SLO_LATENCY_BUCKET', key)
                      = SampleCount(SLO_LATENCY_BUCKET, key) + 1
                 /\ SLO_ERROR_COUNTER'[key] <= SLO_ERROR_COUNTER[key] + 1 ]_vars

(***************************************************************************)
(* main.py: get_redis_client, the connection made when the module loads.   *)
(***************************************************************************)
max_retries == 5

\* What an attempt (from_url, then ping) can meet: the ping answers, or it
\* raises one of the two errors the loop catches, or another redis error.
PingOutcomes == {"ok", "ConnectionError", "TimeoutError", "AuthenticationError"}

\* The answers the server gives to the successive attempts.
Schedules == [1..max_retries -> PingOutcomes]

\* except (ConnectionError, TimeoutError)
caught(outcome) == outcome \in {"ConnectionError", "TimeoutError"}

\* The delay grows by one second.
next_delay_linear(retry_delay) == retry_delay + 1

\* retry_delay *= 2
next_delay(retry_delay) == retry_delay * 2

\* if attempt < max_retries - 1
may_retry(attempt) == attempt < max_retries - 1

\* The module calls get_redis_client once, whatever the server will answer.
InitRedis ==
    /\ SLO_LATENCY_BUCKET = [k \in SeriesKeys |-> EmptyBag]
    /\ SLO_ERROR_COUNTER = [k \in SeriesKeys |-> 0]
    /\ SLO_COMPLIANCE = [k \in GaugeKeys |-> None]
    /\ SLO_ERROR_BUDGET = [k \in BudgetKeys |-> None]
    /\ InitTracked
    /\ ret = NoCall
    /\ calls = 0
    /\ pc = [t \in Threads |-> "idle"]
    /\ frame = [t \in Threads |-> NoCall]
    /\ trace = [spans |-> <<>>, processes |-> <<>>]
    /\ analysis = None
    /\ repo = NoCall
    /\ \E schedule \in Schedules :
           redis = [op |-> "get_redis_client", schedule |-> schedule, pc |-> "try",
                    attempt |-> 0, retry_delay |-> 1, pings |-> 0, sleeps |-> <<>>,
                    client |-> "none", raised |-> "none"]

RedisUnchanged ==
    UNCHANGED <<metrics, ret, calls, pc, frame, trace, analysis, repo, tracked>>

\* The try block of one pass of the loop: from_url and ping; the client is
\* returned when the ping answers, an error that is not caught leaves the
\* function.
redis_try ==
    /\ redis.pc = "try"
    /\ LET outcome == redis.schedule[redis.attempt + 1]
       IN  redis' = [redis EXCEPT
                        !.pings = @ + 1,
                        !.pc = IF caught(outcome) THEN "except" ELSE "done",
                        !.client = IF outcome = "ok" THEN "Redis" ELSE @,
                        !.raised = IF outcome = "ok" \/ caught(outcome) THEN @ ELSE outcome]
    /\ RedisUnchanged

\* The except block: sleep and double the delay, or after the last attempt
\* return the DummyRedisClient.
redis_except ==
    /\ redis.pc = "except"
    /\ redis' = IF may_retry(redis.attempt)
                THEN [redis EXCEPT !.sleeps = Append(@, redis.retry_delay),
                                   !.retry_delay = next_delay(@),
                                   !.pc = "next"]
                ELSE [redis EXCEPT !.client = "DummyRedisClient", !.pc = "done"]
    /\ RedisUnchanged

\* for attempt in range(max_retries): the next pass, or the end of the loop
\* (the function then returns None).
redis_next ==
    /\ redis.pc = "next"
    /\ redis' = IF redis.attempt + 1 < max_retries
                THEN [redis EXCEPT !.attempt = @ + 1, !.pc = "try"]
                ELSE [redis EXCEPT !.client = "None", !.pc = "done"]
    /\ RedisUnchanged

get_redis_client == redis_try \/ redis_except \/ redis_next

\* The call runs in the one thread that loads the module: it is not held up.
SpecRedis == InitRedis /\ [][get_redis_client]_vars /\ WF_vars(get_redis_client)

\* The attempts before attempt n all met an error the loop catches.
AllCaughtBefore(n) == \A i \in 1..(n - 1) : caught(redis.schedule[i])

\* C26: get_redis_client terminates and raises no connection or timeout
\* error; it makes at most 5 attempts, sleeps 1, 2, 4, 8 seconds after the
\* failed attempts 1 to 4 and not after the 5th, returns a real client at the
\* first attempt whose ping answers and the DummyRedisClient iff all 5 fail.
C26_RedisClientTerminates ==
    /\ [](redis.op = "get_redis_client" =>
            /\ redis.pings <= 5
            /\ redis.raised \notin {"ConnectionError", "TimeoutError"}
            /\ redis.pc = "done" =>
                 /\ redis.pings >= 1
                 /\ AllCaughtBefore(redis.pings)
                 /\ redis.sleeps = SubSeq(<<1, 2, 4, 8>>, 1, redis.pings - 1)
                 /\ redis.client = "Redis" <=> redis.schedule[redis.pings] = "ok"
                 /\ redis.client = "DummyRedisClient" <=>
                        \A i \in 1..5 : caught(redis.schedule[i])
                 /\ redis.client \in {"Redis", "DummyRedisClient"} <=> redis.raised = "none")
    /\ <>(redis.pc = "done")

\* All five attempts have failed: four sleeps, then the dummy client.
C26_Witness ==
    /\ redis.op = "get_redis_client"
    /\ redis.pc = "done"
    /\ redis.pings = 5
    /\ redis.sleeps = <<1, 2, 4, 8>>
    /\ redis.client = "DummyRedisClient"

(***************************************************************************)
(* repositories/cached_repository.py and cached_user_repository.py: the    *)
(* users table behind a Redis cache.  A row is its columns id and          *)
(* username; entries do not expire (every call is within the TTL).         *)
(***************************************************************************)
MaxRepoCalls == 4

Ids == {1, 2}

Usernames == {"ann", "bob"}

\* model_class(**data) once the database has given it an id.
Row(id, username) == [id |-> id, username |-> username]

\* _serialize: the JSON text of the columns of an entity (or of a dict).
_serialize(obj) == [json |-> obj]

\* _deserialize: None for no data, else the dict the JSON text holds.
_deserialize(data) == IF data = None THEN None ELSE Some(data[1].json)

\* _entity_from_dict: an instance with the attributes of the dict.
_entity_from_dict(data) ==
    IF data = None THEN None ELSE Some(Row(data[1].id, data[1].username))

\* db.query(model_class).filter_by(id=id).first()
query_by_id(db, id) == db[id]

\* db.query(User).filter(User.username == username).first()
query_by_username(db, username) ==
    LET ids == {i \in Ids : db[i] # None /\ db[i][1].username = username}
    IN  IF ids = {} THEN None ELSE db[CHOOSE i \in ids : \A j \in ids : i <= j]

\* The commit succeeds: no other row has the username.
username_free(db, id, username) ==
    {i \in Ids \ {id} : db[i] # None /\ db[i][1].username = username} = {}

\* redis.setex(cache_key, ttl, serialized)
setex(cache, key, serialized) == [cache EXCEPT ![key] = Some(serialized)]

\* redis.delete(cache_key)
redis_delete(cache, key) == [cache EXCEPT ![key] = None]

\* get_by_id: what it returns: the entity built from the cached data when
\* there is any, else the row the database holds.
get_by_id_result(db, cache, id) ==
    IF cache[id] # None /\ _entity_from_dict(_deserialize(cache[id])) # None
    THEN _entity_from_dict(_deserialize(cache[id]))
    ELSE query_by_id(db, id)

\* get_by_id: the cache it leaves: a row found after a miss is stored.
get_by_id_cache(db, cache, id) ==
    IF cache[id] # None /\ _entity_from_dict(_deserialize(cache[id])) # None
    THEN cache
    ELSE IF query_by_id(db, id) # None
         THEN setex(cache, id, _serialize(query_by_id(db, id)[1]))
         ELSE cache

\* update leaves the cache entry as it was.
cache_after_update_unwritten(cache, id, entity) == cache

\* update: if self.redis: setex(cache_key, ttl, _serialize(entity))
cache_after_update(cache, id, entity) == setex(cache, id, _serialize(entity))

\* The repository after module load: no rows, nothing cached.
InitRepo ==
    /\ SLO_LATENCY_BUCKET = [k \in SeriesKeys |-> EmptyBag]
    /\ SLO_ERROR_COUNTER = [k \in SeriesKeys |-> 0]
    /\ SLO_COMPLIANCE = [k \in GaugeKeys |-> None]
    /\ SLO_ERROR_BUDGET = [k \in BudgetKeys |-> None]
    /\ InitTracked
    /\ ret = NoCall
    /\ calls = 0
    /\ pc = [t \in Threads |-> "idle"]
    /\ frame = [t \in Threads |-> NoCall]
    /\ trace = [spans |-> <<>>, processes |-> <<>>]
    /\ analysis = None
    /\ redis = NoCall
    /\ repo = [db |-> [i \in Ids |-> None],
               next_id |-> 1,
               cache |-> [i \in Ids |-> None],
               lookup |-> [u \in Usernames |-> None]]

RepoUnchanged == UNCHANGED <<metrics, pc, frame, trace, analysis, redis, tracked>>

\* create: the row is inserted under the next id and cached.
create(username) ==
    /\ calls < MaxRepoCalls
    /\ repo.next_id \in Ids
    /\ username_free(repo.db, repo.next_id, username)
    /\ LET entity == Row(repo.next_id, username)
       IN  /\ repo' = [repo EXCEPT !.db[entity.id] = Some(entity),
                                   !.next_id = @ + 1,
                                   !.cache = setex(@, entity.id, _serialize(entity))]
           /\ ret' = [op |-> "create", id |-> entity.id, username |-> username,
                      result |-> Some(entity), raised |-> "none"]
    /\ calls' = calls + 1
    /\ RepoUnchanged

\* update: None for a missing row; else the row is changed, committed and
\* cached.
update(id, username) ==
    /\ calls < MaxRepoCalls
    /\ repo.db[id] # None => username_free(repo.db, id, username)
    /\ LET entity == Row(id, username)
       IN  IF query_by_id(repo.db, id) = None
           THEN /\ repo' = repo
                /\ ret' = [op |-> "update", id |-> id, username |-> username,
                           result |-> None, raised |-> "none"]
           ELSE /\ repo' = [repo EXCEPT !.db[id] = Some(entity),
                                        !.cache = cache_after_update(@, id, entity)]
                /\ ret' = [op |-> "update", id |-> id, username |-> username,
                           result |-> Some(entity), raised |-> "none"]
    /\ calls' = calls + 1
    /\ RepoUnchanged

\* delete: False for a missing row; else the row and its cache entry go.
delete(id) ==
    /\ calls < MaxRepoCalls
    /\ IF query_by_id(repo.db, id) = None
       THEN /\ repo' = repo
            /\ ret' = [op |-> "delete", id |-> id, result |-> FALSE, raised |-> "none"]
       ELSE /\ repo' = [repo EXCEPT !.db[id] = None,
                                    !.cache = redis_delete(@, id)]
            /\ ret' = [op |-> "delete", id |-> id, result |-> TRUE, raised |-> "none"]
    /\ calls' = calls + 1
    /\ RepoUnchanged

get_by_id(id) ==
    /\ calls < MaxRepoCalls
    /\ repo' = [repo EXCEPT !.cache = get_by_id_cache(repo.db, @, id)]
    /\ ret' = [op |-> "get_by_id", id |-> id,
               hit |-> repo.cache[id] # None,
               result |-> get_by_id_result(repo.db, repo.cache, id), raised |-> "none"]
    /\ calls' = calls + 1
    /\ RepoUnchanged

\* invalidate_cache: bool(redis.delete(cache_key))
invalidate_cache(id) ==
    /\ calls < MaxRepoCalls
    /\ repo' = [repo EXCEPT !.cache = redis_delete(@, id)]
    /\ ret' = [op |-> "invalidate_cache", id |-> id,
               result |-> repo.cache[id] # None, raised |-> "none"]
    /\ calls' = calls + 1
    /\ RepoUnchanged

\* get_by_username: a cached lookup entry names the id and the user comes
\* from get_by_id; else the database is asked and, when it has the user,
\* the user and the lookup entry are cached.
get_by_username(username) ==
    /\ calls < MaxRepoCalls
    /\ LET data == _deserialize(repo.lookup[username])
           user == query_by_username(repo.db, username)
       IN  IF data # None
           THEN /\ repo' = [repo EXCEPT
                               !.cache = get_by_id_cache(repo.db, @, data[1].id)]
                /\ ret' = [op |-> "get_by_username", username |-> username,
                           hit |-> TRUE,
                           result |-> get_by_id_result(repo.db, repo.cache, data[1].id),
                           raised |-> "none"]
           ELSE /\ repo' = IF user = None THEN repo
                           ELSE [repo EXCEPT
                                    !.cache = get_by_id_cache(repo.db, @, user[1].id),
                                    !.lookup = setex(@, username,
                                                     _serialize([id |-> user[1].id]))]
                /\ ret' = [op |-> "get_by_username", username |-> username,
                           hit |-> FALSE, result |-> user, raised |-> "none"]
    /\ calls' = calls + 1
    /\ RepoUnchanged

RepoCall ==
    \/ \E username \in Usernames : create(username)
    \/ \E id \in Ids, username \in Usernames : update(id, username)
    \/ \E id \in Ids : delete(id)
    \/ \E id \in Ids : get_by_id(id)
    \/ \E id \in Ids : invalidate_cache(id)
    \/ \E username \in Usernames : get_by_username(username)

\* One caller at a time uses the repository.
SpecRepo == InitRepo /\ [][RepoCall]_vars

WriterOps == {"update", "delete"}

\* The new username of an update.
NewNames == {"cat", "dan"}

\* The rows the database may hold when the two requests arrive, each cached
\* or not.
InitRepoConcurrent ==
    /\ SLO_LATENCY_BUCKET = [k \in SeriesKeys |-> EmptyBag]
    /\ SLO_ERROR_COUNTER = [k \in SeriesKeys |-> 0]
    /\ SLO_COMPLIANCE = [k \in GaugeKeys |-> None]
    /\ SLO_ERROR_BUDGET = [k \in BudgetKeys |-> None]
    /\ InitTracked
    /\ ret = NoCall
    /\ calls = 0
    /\ pc = [t \in Threads |-> "idle"]
    /\ frame = [t \in Threads |-> NoCall]
    /\ trace = [spans |-> <<>>, processes |-> <<>>]
    /\ analysis = None
    /\ redis = NoCall
    /\ \E second \in {None, Some(Row(2, "bob"))}, cached \in SUBSET Ids,
          reader_id \in Ids, writer_id \in Ids, op \in WriterOps, name \in NewNames :
           LET db == [i \in Ids |-> IF i = 1 THEN Some(Row(1, "ann")) ELSE second]
           IN  repo = [db |-> db,
                       cache |-> [i \in Ids |-> IF i \in cached /\ db[i] # None
                                                THEN Some(_serialize(db[i][1]))
                                                ELSE None],
                       reader |-> [pc |-> "get", id |-> reader_id, entity |-> None,
                                   result |-> None],
                       writer |-> [pc |-> "query", op |-> op, id |-> writer_id,
                                   username |-> name, entity |-> None]]

\* get_by_id: cached_data = self.redis.get(cache_key); a hit is returned.
r_get ==
    /\ repo.reader.pc = "get"
    /\ LET entity == _entity_from_dict(_deserialize(repo.cache[repo.reader.id]))
       IN  repo' = IF entity # None
                   THEN [repo EXCEPT !.reader.result = entity, !.reader.pc = "done"]
                   ELSE [repo EXCEPT !.reader.pc = "query"]
    /\ UNCHANGED <<metrics, ret, calls, pc, frame, trace, analysis, redis, tracked>>

\* get_by_id: entity = db.query(...).first(); a missing row is returned as
\* None.
r_query ==
    /\ repo.reader.pc = "query"
    /\ LET entity == query_by_id(repo.db, repo.reader.id)
       IN  repo' = [repo EXCEPT !.reader.entity = entity,
                                !.reader.result = entity,
                                !.reader.pc = IF entity # None THEN "setex" ELSE "done"]
    /\ UNCHANGED <<metrics, ret, calls, pc, frame, trace, analysis, redis, tracked>>

\* get_by_id: self.redis.setex(cache_key, self.ttl, _serialize(entity))
fill(cache, id, entity) == setex(cache, id, _serialize(entity))

r_setex ==
    /\ repo.reader.pc = "setex"
    /\ repo' = [repo EXCEPT !.cache = fill(@, repo.reader.id, repo.reader.entity[1]),
                            !.reader.pc = "done"]
    /\ UNCHANGED <<metrics, ret, calls, pc, frame, trace, analysis, redis, tracked>>

\* update, delete: entity = db.query(...).first(); if not entity: return
w_query ==
    /\ repo.writer.pc = "query"
    /\ LET entity == query_by_id(repo.db, repo.writer.id)
       IN  repo' = [repo EXCEPT !.writer.entity = entity,
                                !.writer.pc = IF entity # None THEN "commit" ELSE "done"]
    /\ UNCHANGED <<metrics, ret, calls, pc, frame, trace, analysis, redis, tracked>>

\* update: setattr, db.commit(), db.refresh(entity); delete: db.delete,
\* db.commit()
w_commit ==
    /\ repo.writer.pc = "commit"
    /\ repo' = IF repo.writer.op = "update"
               THEN [repo EXCEPT
                        !.db[repo.writer.id] = Some(Row(repo.writer.id, repo.writer.username)),
                        !.writer.entity = Some(Row(repo.writer.id, repo.writer.username)),
                        !.writer.pc = "cache"]
               ELSE [repo EXCEPT !.db[repo.writer.id] = None, !.writer.pc = "cache"]
    /\ UNCHANGED <<metrics, ret, calls, pc, frame, trace, analysis, redis, tracked>>

\* update: self.redis.setex(...); delete: self.redis.delete(cache_key)
w_cache ==
    /\ repo.writer.pc = "cache"
    /\ repo' = IF repo.writer.op = "update"
               THEN [repo EXCEPT
                        !.cache = cache_after_update(@, repo.writer.id, repo.writer.entity[1]),
                        !.writer.pc = "done"]
               ELSE [repo EXCEPT !.cache = redis_delete(@, repo.writer.id),
                                 !.writer.pc = "done"]
    /\ UNCHANGED <<metrics, ret, calls, pc, frame, trace, analysis, redis, tracked>>

RepoStep == r_get \/ r_query \/ r_setex \/ w_query \/ w_commit \/ w_cache

\* The two requests interleaved in every way.
SpecRepoConcurrent == InitRepoConcurrent /\ [][RepoStep]_vars

\* The reader and the writer have both returned.
BothDone == repo.reader.pc = "done" /\ repo.writer.pc = "done"

MaxWrapped == 3

\* What the wrapped handlers raise: get_external_data an HTTPException,
\* health_check a NameError (db unbound in its finally clause).
Raised == {"HTTPException", "NameError"}

\* What a call of the wrapped function does: it returns a result, or raises
\* an instance of one of the classes.
FuncOutcomes ==
    [kind : {"returns"}, value : {"ok", "degraded"}]
        \cup [kind : {"raises"}, error_type : Raised]

\* The except clause catches nothing.
is_exception_never(error_type) == FALSE

\* except Exception: the classes the clause catches.
is_exception(error_type) == error_type \in {"HTTPException", "NameError"}

\* wrapper: the operation counter is incremented, the function is called,
\* and its duration is observed under "success" when it returns; when it
\* raises an Exception the error counter is incremented, the duration is
\* observed under "error" and the exception is raised again.  What is not an
\* Exception passes through the try statement.
wrapper(operation_name, outcome, duration) ==
    LET handled == outcome.kind = "raises" /\ is_exception(outcome.error_type)
    IN  /\ calls < MaxWrapped
        /\ calls' = calls + 1
        /\ OPERATION_COUNTER' = inc(OPERATION_COUNTER, <<"api", operation_name>>)
        /\ ERROR_COUNTER' =
               IF handled
               THEN inc(ERROR_COUNTER, <<"api", operation_name, outcome.error_type>>)
               ELSE ERROR_COUNTER
        /\ SPAN_DURATION' =
               IF outcome.kind = "returns"
               THEN observe(SPAN_DURATION, <<"api", operation_name, "success">>, duration)
               ELSE IF handled
                    THEN observe(SPAN_DURATION, <<"api", operation_name, "error">>, duration)
                    ELSE SPAN_DURATION
        /\ ret' = [op |-> "wrapper", operation |-> operation_name, outcome |-> outcome,
                   value |-> IF outcome.kind = "returns" THEN Some(outcome.value) ELSE None,
                   raised |-> IF outcome.kind = "raises" THEN outcome.error_type ELSE "none"]
        /\ UNCHANGED <<metrics, pc, frame, trace, analysis, redis, repo>>

Wrapped ==
    \E operation_name \in Operations, outcome \in FuncOutcomes, duration \in Durations :
        wrapper(operation_name, outcome, duration)

\* The wrapped handlers called one at a time.
SpecTracked == InitMetrics /\ [][Wrapped]_vars

\* Samples the span-duration histogram holds for the operation and status.
Samples(hist, operation, status) == SampleCount(hist, <<"api", operation, status>>)

====
